---- MODULE Spec2Model ----
(***************************************************************************)
(* Model of the authentication / session layer of the Loeppky dashboard    *)
(* (src/utils/auth.py) as one browser tab talking to the shared Users and  *)
(* Login Log sheets.  Time is counted in whole hours.                      *)
(***************************************************************************)
EXTENDS Integers, Naturals, Sequences, FiniteSets, TLC

\* ---------------------------------------------------------------- bounds
MaxTime  == 11      \* SpecClock: the wall clock runs over 0..MaxTime hours
MaxShort == 1       \* Spec: the wall clock runs over 0..MaxShort hours
MaxTokTime == 7     \* SpecToken: the wall clock runs over 0..MaxTokTime hours
MaxUsers == 2       \* SpecReg: rows the Users sheet may hold
MaxLog   == 1       \* rows the Login Log sheet may hold

\* ------------------------------------------------------------- constants
ROLE_ADMIN    == "admin"
ROLE_BUSINESS == "business"
ROLE_PERSONAL == "personal"
Roles         == {ROLE_ADMIN, ROLE_BUSINESS, ROLE_PERSONAL}

SK_USER    == "_auth_username"
SK_NAME    == "_auth_name"
SK_ROLE    == "_auth_role"
SK_HEALTH  == "_auth_health"
SK_EXPIRES == "_auth_expires"
\* ALL_SK without the health flag
ALL_SK_NoHealth == {SK_USER, SK_NAME, SK_ROLE, SK_EXPIRES}

ALL_SK     == {SK_USER, SK_NAME, SK_ROLE, SK_HEALTH, SK_EXPIRES}

SESSION_HOURS == 6

Levels == {"business", "personal"}

\* ------------------------------------------------------- input alphabets
RegUsernames == {"alice", "bob", " bob "}
RegEmails   == {"a@x", "b@x", "A@X"}
RegPasswords == {<<"password1", "password1">>, <<"password1", "short">>,
                 <<"short", "short">>}
SignInNames == {"ALICE", " bob ", "carol", "dave", "zed"}
Passwords   == {"password1", "password2"}
Salts       == {"salt1"}
HealthInputs == {"family2026", "guess"}
VerifyTokens == <<"tok1", "tok2", "tok3", "tok4">>

\* str.lower() on the strings of the alphabets
Lower(s) == IF s = "ALICE" THEN "alice" ELSE IF s = "A@X" THEN "a@x" ELSE s

\* len() on the passwords of the alphabets
StrLen(s) == IF s = "short" THEN 5 ELSE 9

\* str.strip() on the strings of the alphabets
Strip(s) == IF s = " bob " THEN "bob" ELSE s

VARIABLES
    users,    \* rows of the Users sheet, in sheet order
    log,      \* rows of the Login Log sheet, in sheet order
    ss,       \* st.session_state of the tab: a partial map over ALL_SK
    cookie,   \* the browser's loeppky_auth cookie (NoCookie when absent)
    now,      \* wall clock, hours
    level,    \* level of the page the tab is on
    screen,   \* what the last script run rendered
    rerun,    \* TRUE while an st.rerun() is pending
    out,      \* what the last script run did
    pend,     \* register calls of other browser sessions between their read
              \* of the Users sheet and their append
    txns,     \* rows of the Business Transactions sheet, as load_transactions
              \* returns them: the txns of the Receipts page's script run
    t_ws,     \* rows of the Business Transactions worksheet
    r_ws,     \* rows of the Receipts worksheet
    cache,    \* st.cache_data: the cached results of load_receipts and
              \* load_transactions, shared by every browser session
    other     \* confirm runs of other browser sessions between their load
              \* and their writes

vars == <<users, log, ss, cookie, now, level, screen, rerun, out, pend, txns, t_ws, r_ws, cache, other>>

\* st.cache_data with no entry
EmptyCache == [receipts |-> <<>>, txns |-> <<>>]

\* the Receipts page has not run and its worksheets hold no rows
NoReceiptsPage ==
    /\ t_ws   = <<>>
    /\ r_ws   = <<>>
    /\ cache  = EmptyCache
    /\ other  = {}

\* ------------------------------------------------- session-state helpers
EmptySS == [k \in {} |-> TRUE]

Has(s, k) == k \in DOMAIN s

Pop(s, ks) == [k \in (DOMAIN s) \ ks |-> s[k]]

Put(s, k, v) == [x \in (DOMAIN s) \cup {k} |-> IF x = k THEN v ELSE s[x]]

\* st.session_state.get(k) used as a condition (missing and "" are falsy)
Truthy(s, k) == Has(s, k) /\ s[k] # ""

HealthFlag(s) == Has(s, SK_HEALTH) /\ s[SK_HEALTH] = TRUE

\* ---------------------------------------------------------- token codec
NoCookie == <<"absent">>
None     == [none |-> TRUE]

SessionSecret == "session-secret"

Hmac(key, msg) == <<"hmac-sha256", key, msg>>

JsonDumps(u, n, r, exp) == <<"json", u, n, r, exp>>

JsonLoads(str) == [u |-> str[2], n |-> str[3], r |-> str[4], exp |-> str[5]]

B64Encode(raw) == <<"b64", raw>>

IsB64(tok) == Len(tok) = 2 /\ tok[1] = "b64"

MakeToken(username, name, role, t) ==
    LET exp     == t + SESSION_HOURS
        payload == JsonDumps(username, name, role, exp)
        sig     == Hmac(SessionSecret, payload)
    IN  B64Encode(<<payload, sig>>)

\* raw.rsplit("|", 1) gives the two parts (anything else raises)
Splits(raw) == Len(raw) = 2

\* VerifyToken without the signature comparison of lines 82-84
VerifyToken_NoSigCheck(token, t) ==
    IF ~IsB64(token) \/ ~Splits(token[2]) THEN None
    ELSE LET payload == JsonLoads(token[2][1])
         IN  IF t > payload.exp THEN None ELSE payload

\* VerifyToken without the expiry comparison of lines 86-87
VerifyToken_IgnoreExpiry(token, t) ==
    IF ~IsB64(token) \/ ~Splits(token[2]) THEN None
    ELSE IF token[2][2] # Hmac(SessionSecret, token[2][1]) THEN None
    ELSE JsonLoads(token[2][1])

VerifyToken(token, t) ==
    IF ~IsB64(token) \/ ~Splits(token[2]) THEN None
    ELSE LET raw         == token[2]
             payload_str == raw[1]
             sig         == raw[2]
             expected    == Hmac(SessionSecret, payload_str)
         IN  IF sig # expected THEN None
             ELSE LET payload == JsonLoads(payload_str)
                  IN  IF t > payload.exp THEN None ELSE payload

\* ------------------------------------------------------------ sheet rows
HashPw(password, salt) == <<"bcrypt", salt, password>>

CheckPw(password, hashed) == hashed[1] = "bcrypt" /\ hashed[3] = password

\* _load_users: a failed read is reported as an empty list
LoadUsers(readOk) == IF readOk THEN users ELSE <<>>

\* _find_user: index of the first row whose username matches, 0 for None
FindUser(us, username) ==
    LET hits == {i \in 1..Len(us) : Lower(us[i].Username) = Lower(username)}
    IN  IF hits = {} THEN 0 ELSE CHOOSE i \in hits : \A j \in hits : i <= j

LogRow(username, name, role, action) ==
    [Username |-> username, Name |-> name, Role |-> role, Action |-> action]

\* LogEvent with a failed write that empties the sheet
LogEvent_Truncate(lg, row, writeOk) == IF writeOk THEN Append(lg, row) ELSE <<>>

\* _log_event: the append is best effort
LogEvent(lg, row, writeOk) == IF writeOk THEN Append(lg, row) ELSE lg

\* the outcomes a write to the Login Log can have: it may always fail, and
\* it fails once the sheet holds MaxLog rows
LogWrites(lg) == IF Len(lg) < MaxLog THEN BOOLEAN ELSE {FALSE}

\* _get_health_password: the configured passphrase (the built-in default)
HealthPassword == "family2026"

\* ------------------------------------------------------- require_auth
\* ExpireStep without the expiry check
ExpireStep_Never(s, t) == s

\* lines 367-373: an expired session is dropped when it is next looked at
ExpireStep(s, t) ==
    IF Truthy(s, SK_USER) /\ Has(s, SK_EXPIRES) /\ t > s[SK_EXPIRES]
    THEN Pop(s, ALL_SK)
    ELSE s

\* lines 375-390: restore the session from the cookie; cookieOk = FALSE is
\* the cookie component being absent, not loaded yet, or raising
RestoreStep(s, ck, t, cookieOk) ==
    IF Truthy(s, SK_USER) \/ ~cookieOk \/ ck = NoCookie THEN s
    ELSE LET payload == VerifyToken(ck, t)
         IN  IF payload = None THEN s
             ELSE Put(Put(Put(Put(s, SK_USER, payload.u), SK_NAME, payload.n),
                          SK_ROLE, payload.r), SK_EXPIRES, t + SESSION_HOURS)

Preamble(s, ck, t, cookieOk) == RestoreStep(ExpireStep(s, t), ck, t, cookieOk)

Active(s) == Truthy(s, SK_USER) /\ Truthy(s, SK_ROLE)

\* Touch that leaves the expiry set at sign-in in place
Touch_NoRefresh(s, t) == s

\* line 394
Touch(s, t) == Put(s, SK_EXPIRES, t + SESSION_HOURS)

\* Gate without the business-level check of lines 395-397
Gate_NoBusinessCheck(role, lvl, health) ==
    IF lvl = "personal" /\ role \notin {ROLE_PERSONAL, ROLE_ADMIN} THEN "denied"
    ELSE IF lvl = "personal" /\ ~health THEN "health"
    ELSE "page"

\* Gate with admins let past the health prompt of lines 401-404
Gate_AdminSkipsHealth(role, lvl, health) ==
    IF lvl = "business" /\ role \notin {ROLE_BUSINESS, ROLE_ADMIN} THEN "denied"
    ELSE IF lvl = "personal" /\ role \notin {ROLE_PERSONAL, ROLE_ADMIN} THEN "denied"
    ELSE IF lvl = "personal" /\ ~health /\ role # ROLE_ADMIN THEN "health"
    ELSE "page"

\* lines 395-406: what an active session gets to see on a page of level lvl
Gate(role, lvl, health) ==
    IF lvl = "business" /\ role \notin {ROLE_BUSINESS, ROLE_ADMIN} THEN "denied"
    ELSE IF lvl = "personal" /\ role \notin {ROLE_PERSONAL, ROLE_ADMIN} THEN "denied"
    ELSE IF lvl = "personal" /\ ~health THEN "health"
    ELSE "page"

\* SignInOutcome without the Verified check of line 437
SignInOutcome_NoVerifiedCheck(us, row, p_in, lvl) ==
    IF row = 0 THEN "InvalidCredentials"
    ELSE IF ~CheckPw(p_in, us[row].PwHash) THEN "InvalidCredentials"
    ELSE IF lvl = "business" /\ us[row].Role \notin {ROLE_BUSINESS, ROLE_ADMIN}
         THEN "RoleRejected"
    ELSE "SignedIn"

\* SignInOutcome without the password check of line 442
SignInOutcome_NoPwCheck(us, row, p_in, lvl) ==
    IF row = 0 THEN "InvalidCredentials"
    ELSE IF us[row].Verified # "Yes" THEN "NotVerified"
    ELSE IF lvl = "business" /\ us[row].Role \notin {ROLE_BUSINESS, ROLE_ADMIN}
         THEN "RoleRejected"
    ELSE "SignedIn"

\* lines 434-451: the Sign In button's decision for the row found (0: none)
SignInOutcome(us, row, p_in, lvl) ==
    IF row = 0 THEN "InvalidCredentials"
    ELSE IF us[row].Verified # "Yes" THEN "NotVerified"
    ELSE IF ~CheckPw(p_in, us[row].PwHash) THEN "InvalidCredentials"
    ELSE IF lvl = "business" /\ us[row].Role \notin {ROLE_BUSINESS, ROLE_ADMIN}
         THEN "RoleRejected"
    ELSE "SignedIn"

\* SignedInState with the username stored as the display name
SignedInState_NameIsUsername(s, u, t) ==
    Put(Put(Put(Put(s, SK_USER, u.Username), SK_NAME, u.Username),
            SK_ROLE, u.Role), SK_EXPIRES, t + SESSION_HOURS)

\* lines 452-455
SignedInState(s, u, t) ==
    Put(Put(Put(Put(s, SK_USER, u.Username), SK_NAME, u.Name),
            SK_ROLE, u.Role), SK_EXPIRES, t + SESSION_HOURS)

\* lines 456-465: the cookie write is best effort
SetCookie(ck, u, t, setOk) ==
    IF setOk THEN MakeToken(u.Username, u.Name, u.Role, t) ELSE ck

\* lines 308-313: the cookie delete is best effort
DeleteCookie(ck, delOk) == IF delOk THEN NoCookie ELSE ck

Outcome(op, res, u, p) == [op |-> op, res |-> res, u |-> u, p |-> p]

\* the Users sheet after the owner and three more people have registered,
\* three of them verified, and the owner has set bob's Role in the sheet
UserRow(username, name, email, pw, role, verified, token) ==
    [Username |-> username, Name |-> name, Email |-> email,
     PwHash |-> HashPw(pw, "salt1"), Role |-> role,
     Verified |-> verified, Token |-> token]

SeedUsers ==
    << UserRow("alice", "Al", "a@x", "password1", ROLE_ADMIN,    "Yes", ""),
       UserRow("bob",   "Bo", "b@x", "password1", ROLE_BUSINESS, "Yes", ""),
       UserRow("carol", "Ca", "c@x", "password1", ROLE_PERSONAL, "Yes", ""),
       UserRow("dave",  "Da", "d@x", "password1", ROLE_PERSONAL, "No",  "tok4") >>

Init ==
    /\ users  = SeedUsers
    /\ log    = <<>>
    /\ ss     = EmptySS
    /\ cookie = NoCookie
    /\ now    = 0
    /\ level  = "business"
    /\ screen = "none"
    /\ rerun  = FALSE
    /\ out    = Outcome("init", "", "", "")
    /\ pend   = {}
    /\ txns   = <<>>
    /\ NoReceiptsPage

\* the rest of a script run whose session s1 is active: lines 392-406
AuthRun(s1, lvl) ==
    LET g == Gate(s1[SK_ROLE], lvl, HealthFlag(s1))
    IN  /\ ss' = Touch(s1, now)
        /\ screen' = g
        /\ out' = Outcome("load", g, "", "")

\* the rest of a script run that ends at the sign-in form with no button
\* handled: lines 408-430, 496
FormRun(s1) ==
    /\ ss' = s1
    /\ screen' = "form"
    /\ out' = Outcome("load", "form",
                      IF ExpireStep(ss, now) # ss THEN ss[SK_USER] ELSE "", "")

\* the user opens or reloads a page of level lvl
PageLoad(lvl, cookieOk) ==
    /\ ~rerun
    /\ LET s1 == Preamble(ss, cookie, now, cookieOk)
       IN  IF Active(s1) THEN AuthRun(s1, lvl) ELSE FormRun(s1)
    /\ level' = lvl
    /\ UNCHANGED <<users, log, cookie, now, rerun, pend, txns, t_ws, r_ws, cache, other>>

\* the script run that st.rerun() starts
Rerun(cookieOk) ==
    /\ rerun
    /\ LET s1 == Preamble(ss, cookie, now, cookieOk)
       IN  IF Active(s1) THEN AuthRun(s1, level) ELSE FormRun(s1)
    /\ rerun' = FALSE
    /\ UNCHANGED <<users, log, cookie, now, level, pend, txns, t_ws, r_ws, cache, other>>

\* lines 452-467: the session, the cookie and the Login row of a sign-in
SignedIn(s1, u, setOk, logOk) ==
    /\ ss' = SignedInState(s1, u, now)
    /\ cookie' = SetCookie(cookie, u, now, setOk)
    /\ log' = LogEvent(log, LogRow(u.Username, u.Name, u.Role, "Login"), logOk)
    /\ rerun' = TRUE
    /\ screen' = "rerun"

\* the Sign In button: lines 432-467
SignIn(u_in, p_in, cookieOk, logOks) ==
    /\ ~rerun
    /\ screen = "form"
    /\ LET s1 == Preamble(ss, cookie, now, cookieOk)
       IN  IF Active(s1)
           THEN AuthRun(s1, level) /\ UNCHANGED <<log, cookie, rerun>>
           ELSE \E readOk \in BOOLEAN :
                LET us  == LoadUsers(readOk)
                    row == FindUser(us, Strip(u_in))
                    res == SignInOutcome(us, row, p_in, level)
                IN  /\ out' = [op |-> "signin", res |-> res, u |-> Strip(u_in),
                                p |-> p_in, read |-> readOk]
                    /\ IF res = "SignedIn"
                       THEN \E setOk \in BOOLEAN, logOk \in logOks :
                               SignedIn(s1, us[row], setOk, logOk)
                       ELSE /\ ss' = s1
                            /\ screen' = "form"
                            /\ UNCHANGED <<log, cookie, rerun>>
    /\ UNCHANGED <<users, now, level, pend, txns, t_ws, r_ws, cache, other>>

\* the Unlock button of the health prompt: lines 275-291
Unlock(hw, cookieOk) ==
    /\ ~rerun
    /\ screen = "health"
    /\ LET s1 == Preamble(ss, cookie, now, cookieOk)
       IN  IF ~Active(s1) THEN FormRun(s1) /\ UNCHANGED rerun
           ELSE IF Gate(s1[SK_ROLE], level, HealthFlag(s1)) # "health"
           THEN AuthRun(s1, level) /\ UNCHANGED rerun
           ELSE IF hw = HealthPassword
           THEN /\ ss' = Put(Touch(s1, now), SK_HEALTH, TRUE)
                /\ rerun' = TRUE
                /\ screen' = "rerun"
                /\ out' = Outcome("unlock", "unlocked", "", hw)
           ELSE /\ ss' = Touch(s1, now)
                /\ screen' = "health"
                /\ out' = Outcome("unlock", "wrong", "", hw)
                /\ UNCHANGED rerun
    /\ UNCHANGED <<users, log, cookie, now, level, pend, txns, t_ws, r_ws, cache, other>>

\* lines 302-316: the Logout row, the cookie and the session of a logout
LoggedOut(s2, logOk, delOk) ==
    /\ log' = LogEvent(log, LogRow(s2[SK_USER], s2[SK_NAME], s2[SK_ROLE], "Logout"), logOk)
    /\ cookie' = DeleteCookie(cookie, delOk)
    /\ ss' = Pop(s2, ALL_SK)
    /\ rerun' = TRUE
    /\ screen' = "rerun"
    /\ out' = Outcome("logout", "loggedout", s2[SK_USER], "")

\* the Logout button of the sidebar: lines 296-316
Logout(cookieOk, logOks) ==
    /\ ~rerun
    /\ screen \in {"page", "health"}
    /\ LET s1 == Preamble(ss, cookie, now, cookieOk)
       IN  IF ~Active(s1)
           THEN FormRun(s1) /\ UNCHANGED <<log, cookie, rerun>>
           ELSE IF Gate(s1[SK_ROLE], level, HealthFlag(s1)) = "denied"
           THEN AuthRun(s1, level) /\ UNCHANGED <<log, cookie, rerun>>
           ELSE \E logOk \in logOks, delOk \in BOOLEAN :
                   LoggedOut(Touch(s1, now), logOk, delOk)
    /\ UNCHANGED <<users, now, level, pend, txns, t_ws, r_ws, cache, other>>

\* an hour passes
Tick(maxT) ==
    /\ ~rerun
    /\ now < maxT
    /\ now' = now + 1
    /\ out' = Outcome("tick", "", "", "")
    /\ UNCHANGED <<users, log, ss, cookie, level, screen, rerun, pend, txns, t_ws, r_ws, cache, other>>

\* Spec: sign-in, authorization and logout with the Login Log, over the first
\* hours of the clock
Next ==
    \/ \E lvl \in Levels, cookieOk \in BOOLEAN : PageLoad(lvl, cookieOk)
    \/ \E cookieOk \in BOOLEAN : Rerun(cookieOk)
    \/ \E u_in \in SignInNames, p_in \in Passwords, cookieOk \in BOOLEAN :
          SignIn(u_in, p_in, cookieOk, LogWrites(log))
    \/ \E hw \in HealthInputs, cookieOk \in BOOLEAN : Unlock(hw, cookieOk)
    \/ \E cookieOk \in BOOLEAN : Logout(cookieOk, LogWrites(log))
    \/ Tick(MaxShort)

Spec == Init /\ [][Next]_vars

\* SpecClock: the same script runs over a clock long enough for sessions and
\* cookies to expire; the Login Log, which no script run reads, is out of reach
NextClock ==
    \/ \E lvl \in Levels, cookieOk \in BOOLEAN : PageLoad(lvl, cookieOk)
    \/ \E cookieOk \in BOOLEAN : Rerun(cookieOk)
    \/ \E u_in \in SignInNames, p_in \in Passwords, cookieOk \in BOOLEAN :
          SignIn(u_in, p_in, cookieOk, {FALSE})
    \/ \E hw \in HealthInputs, cookieOk \in BOOLEAN : Unlock(hw, cookieOk)
    \/ \E cookieOk \in BOOLEAN : Logout(cookieOk, {FALSE})
    \/ Tick(MaxTime)

SpecClock == Init /\ [][NextClock]_vars

\* ------------------------------------------------------------ _register
\* lines 480-485: the checks of the Create Account form
FormCheck(r_user, r_name, r_email, r_pw, r_pw2) ==
    IF "" \in {r_user, r_name, r_email, r_pw, r_pw2} THEN "AllFieldsRequired"
    ELSE IF r_pw # r_pw2 THEN "PasswordsDontMatch"
    ELSE IF StrLen(r_pw) < 8 THEN "PasswordTooShort"
    ELSE "ok"

\* lines 226-230: the first row that has the username or the email decides
DupCheck(us, username, email) ==
    LET hits == {i \in 1..Len(us) :
                    \/ Lower(us[i].Username) = Lower(username)
                    \/ Lower(us[i].Email) = Lower(email)}
        first == CHOOSE i \in hits : \A j \in hits : i <= j
    IN  IF hits = {} THEN "ok"
        ELSE IF Lower(us[first].Username) = Lower(username) THEN "DuplicateUsername"
        ELSE "DuplicateEmail"

\* RoleFor with every new user made admin
RoleFor_AlwaysAdmin(us) == ROLE_ADMIN

\* line 233: the first user on an empty sheet becomes admin
RoleFor(us) == IF Len(us) = 0 THEN ROLE_ADMIN ELSE ROLE_PERSONAL

\* lines 234-238: the row _append_user writes
NewUser(username, name, email, password, salt, role, token) ==
    [Username |-> username, Name |-> name, Email |-> email,
     PwHash |-> HashPw(password, salt), Role |-> role,
     Verified |-> "No", Token |-> token]

\* secrets.token_urlsafe(32): a token no row holds yet
FreshToken == VerifyTokens[Len(users) + 1]

\* the outcomes an append to the Users sheet can have: it may always raise,
\* and it raises once the sheet holds MaxUsers rows
UserWrites == IF Len(users) < MaxUsers THEN BOOLEAN ELSE {FALSE}

\* the outcomes of _send_verify_email
MailOutcomes == {"sent", "failed", "unconfigured"}

\* AfterAppend with a failed dispatch turned into a failure of the call
AfterAppend_MailFatal(mail) == IF mail = "sent" THEN "Created" ELSE "Exception"

\* lines 240-253: the result of the call once the row is appended; both
\* branches return True
AfterAppend(mail) == IF mail = "sent" THEN "Created" ELSE "Created"

RegOut(res, u, e, role, readOk, mail) ==
    [op |-> "register", res |-> res, u |-> u, e |-> e, role |-> role,
     read |-> readOk, mail |-> mail]

\* _register: lines 223-253
Register(username, name, email, password) ==
    \E readOk \in BOOLEAN :
        LET us  == LoadUsers(readOk)
            dup == DupCheck(us, username, email)
        IN  IF dup # "ok"
            THEN /\ out' = RegOut(dup, username, email, "", readOk, "")
                 /\ UNCHANGED users
            ELSE \E salt \in Salts, appendOk \in UserWrites, mail \in MailOutcomes :
                    LET role == RoleFor(us)
                    IN  IF ~appendOk
                        THEN /\ out' = RegOut("Exception", username, email, role, readOk, "")
                             /\ UNCHANGED users
                        ELSE /\ users' = Append(users,
                                    NewUser(username, name, email, password, salt,
                                            role, FreshToken))
                             /\ out' = RegOut(AfterAppend(mail), username, email, role, readOk, mail)

\* the Create Account button: lines 470-494
RegisterClick(r_user, r_name, r_email, r_pw, r_pw2, cookieOk) ==
    /\ ~rerun
    /\ screen = "form"
    /\ LET s1 == Preamble(ss, cookie, now, cookieOk)
           chk == FormCheck(r_user, r_name, r_email, r_pw, r_pw2)
       IN  IF Active(s1) THEN AuthRun(s1, level) /\ UNCHANGED users
           ELSE /\ ss' = s1
                /\ screen' = "form"
                /\ IF chk # "ok"
                   THEN /\ out' = RegOut(chk, Strip(r_user), Strip(r_email), "", TRUE, "")
                        /\ UNCHANGED users
                   ELSE Register(Strip(r_user), Strip(r_name), Strip(r_email), r_pw)
    /\ UNCHANGED <<log, cookie, now, level, rerun, pend, txns, t_ws, r_ws, cache, other>>

\* SpecReg: registration on an empty Users sheet
InitEmpty ==
    /\ users  = <<>>
    /\ log    = <<>>
    /\ ss     = EmptySS
    /\ cookie = NoCookie
    /\ now    = 0
    /\ level  = "business"
    /\ screen = "none"
    /\ rerun  = FALSE
    /\ out    = Outcome("init", "", "", "")
    /\ pend   = {}
    /\ txns   = <<>>
    /\ NoReceiptsPage

NextReg ==
    \/ \E lvl \in Levels, cookieOk \in BOOLEAN : PageLoad(lvl, cookieOk)
    \/ \E r_user \in RegUsernames, r_name \in {"Al", ""}, r_email \in RegEmails,
          pws \in RegPasswords, cookieOk \in BOOLEAN :
          RegisterClick(r_user, r_name, r_email, pws[1], pws[2], cookieOk)

SpecReg == InitEmpty /\ [][NextReg]_vars

\* ------------------------------------------- _register in other sessions
\* The script of every browser session runs in the one server process, a
\* thread each, against the one Users sheet: a _register call of another
\* session reads the sheet (line 224) and appends its row (line 238) as two
\* requests, and the requests of the sessions interleave.
MaxPend == 1        \* SpecRace: register calls of other sessions in flight

\* the list a call in flight decides on, taken from the sheet again
Loaded_AtAppend(c) == users

\* line 224: the list the call read when it started
Loaded(c) == c.loaded

\* line 224 of a call of another session
OtherRegisterRead(username, name, email, password) ==
    /\ Cardinality(pend) < MaxPend
    /\ \E readOk \in BOOLEAN :
          pend' = pend \cup {[u |-> username, n |-> name, e |-> email,
                              pw |-> password, loaded |-> LoadUsers(readOk),
                              read |-> readOk]}
    /\ out' = Outcome("read", "", username, "")
    /\ UNCHANGED <<users, log, ss, cookie, now, level, screen, rerun, txns, t_ws, r_ws, cache, other>>

\* lines 226-253 of a call of another session
OtherRegisterAppend(c) ==
    /\ c \in pend
    /\ pend' = pend \ {c}
    /\ LET us  == Loaded(c)
           dup == DupCheck(us, c.u, c.e)
       IN  IF dup # "ok"
           THEN /\ out' = RegOut(dup, c.u, c.e, "", c.read, "")
                /\ UNCHANGED users
           ELSE \E salt \in Salts, appendOk \in UserWrites, mail \in MailOutcomes :
                   LET role == RoleFor(us)
                   IN  IF ~appendOk
                       THEN /\ out' = RegOut("Exception", c.u, c.e, role, c.read, "")
                            /\ UNCHANGED users
                       ELSE /\ users' = Append(users,
                                   NewUser(c.u, c.n, c.e, c.pw, salt, role, FreshToken))
                            /\ out' = RegOut(AfterAppend(mail), c.u, c.e, role, c.read, mail)
    /\ UNCHANGED <<log, ss, cookie, now, level, screen, rerun, txns, t_ws, r_ws, cache, other>>

\* SpecRace: registration by this session and by others on an empty sheet
NextRace ==
    \/ \E cookieOk \in BOOLEAN : PageLoad("business", cookieOk)
    \/ \E r_user \in {"alice", "bob"}, r_email \in {"a@x", "b@x"} :
          RegisterClick(r_user, "Al", r_email, "password1", "password1", TRUE)
    \/ \E username \in {"alice", "bob"}, email \in {"a@x", "b@x"} :
          OtherRegisterRead(username, "Al", email, "password1")
    \/ \E c \in pend : OtherRegisterAppend(c)

SpecRace == InitEmpty /\ [][NextRace]_vars

\* ------------------------------------------- verification and the profile
\* _find_by_token: index of the first row that holds the token, 0 for None
FindByToken(us, token) ==
    LET hits == {i \in 1..Len(us) : us[i].Token = token}
    IN  IF token = "" \/ hits = {} THEN 0
        ELSE CHOOSE i \in hits : \A j \in hits : i <= j

\* ws.update_cell for one column of a row
SetCell(r, cell) == [r EXCEPT ![cell[1]] = cell[2]]

\* the row after the first k cells are written
RECURSIVE WriteCells(_, _, _)
WriteCells(r, cells, k) ==
    IF k = 0 THEN r ELSE SetCell(WriteCells(r, cells, k - 1), cells[k])

\* _update_user: the cells are written one request each, in the order given;
\* k < Len(cells) is a request raising after k cells are written
UpdateUser(us, row, cells, k) ==
    [us EXCEPT ![row] = WriteCells(us[row], cells, k)]

\* VerifyCells with the token left in place
VerifyCells_KeepToken == << <<"Verified", "Yes">> >>

\* line 262: the cells _verify writes
VerifyCells == << <<"Verified", "Yes">>, <<"Token", "">> >>

VerOut(res, token, readOk) ==
    [op |-> "verify_email", res |-> res, tok |-> token, read |-> readOk]

\* _verify: lines 256-263
Verify(token) ==
    \E readOk \in BOOLEAN :
        LET us  == LoadUsers(readOk)
            row == FindByToken(us, token)
        IN  IF row = 0
            THEN /\ out' = VerOut("InvalidToken", token, readOk)
                 /\ UNCHANGED users
            ELSE IF us[row].Verified = "Yes"
            THEN /\ out' = VerOut("AlreadyVerified", token, readOk)
                 /\ UNCHANGED users
            ELSE \E k \in 0..Len(VerifyCells) :
                    /\ users' = UpdateUser(users, row, VerifyCells, k)
                    /\ out' = VerOut(IF k = Len(VerifyCells) THEN "Verified"
                                     ELSE "Exception", token, readOk)

ReloadOut(res, cookieOk) == [op |-> "reload", res |-> res, ck |-> cookieOk]

\* the first script run of a new script session: lines 364-406
ReloadRun(s1, lvl, cookieOk) ==
    IF Active(s1)
    THEN LET g == Gate(s1[SK_ROLE], lvl, HealthFlag(s1))
         IN  /\ ss' = Touch(s1, now)
             /\ screen' = g
             /\ out' = ReloadOut(g, cookieOk)
    ELSE /\ ss' = s1
         /\ screen' = "form"
         /\ out' = ReloadOut("form", cookieOk)

\* the browser opens the app anew (a refresh, a new tab, a link): a new
\* script session with an empty st.session_state and the browser's cookie
Reload(lvl, cookieOk) ==
    /\ ~rerun
    /\ ReloadRun(Preamble(EmptySS, cookie, now, cookieOk), lvl, cookieOk)
    /\ level' = lvl
    /\ UNCHANGED <<users, log, cookie, now, rerun, pend, txns, t_ws, r_ws, cache, other>>

\* the link of the verification email is opened: lines 408-416
VerifyLink(v_token, cookieOk) ==
    /\ ~rerun
    /\ LET s1 == Preamble(EmptySS, cookie, now, cookieOk)
       IN  IF Active(s1) \/ v_token = ""
           THEN ReloadRun(s1, level, cookieOk) /\ UNCHANGED users
           ELSE /\ ss' = s1
                /\ screen' = "form"
                /\ Verify(v_token)
    /\ UNCHANGED <<log, cookie, now, level, rerun, pend, txns, t_ws, r_ws, cache, other>>

\* _verify called as a function, outside a script run
VerifyEmail(token) ==
    /\ ~rerun
    /\ Verify(token)
    /\ UNCHANGED <<log, ss, cookie, now, level, screen, rerun, pend, txns, t_ws, r_ws, cache, other>>

\* 9_Profile.py lines 69-76: the checks of the Change Password form
PwFormCheck(current_pw, new_pw, confirm_pw) ==
    IF "" \in {current_pw, new_pw, confirm_pw} THEN "AllFieldsRequired"
    ELSE IF new_pw # confirm_pw THEN "PasswordsDontMatch"
    ELSE IF StrLen(new_pw) < 8 THEN "PasswordTooShort"
    ELSE IF new_pw = current_pw THEN "SamePassword"
    ELSE "ok"

PwOut(res, username, current_pw, new_pw, readOk) ==
    [op |-> "change_password", res |-> res, u |-> username,
     cur |-> current_pw, new |-> new_pw, read |-> readOk]

\* ChangePasswordAllowed without the check of the current password
ChangePasswordAllowed_NoCheck(current_pw, hashed) == TRUE

\* line 334
ChangePasswordAllowed(current_pw, hashed) == CheckPw(current_pw, hashed)

\* PwCells with the Verified flag reset along with the hash
PwCells_ResetVerified(hashed) == << <<"PwHash", hashed>>, <<"Verified", "No">> >>

\* line 336: the cells change_password writes
PwCells(hashed) == << <<"PwHash", hashed>> >>

\* change_password: lines 329-337
ChangePassword(username, current_pw, new_pw) ==
    \E readOk \in BOOLEAN :
        LET us  == LoadUsers(readOk)
            row == FindUser(us, username)
        IN  IF row = 0
            THEN /\ out' = PwOut("UserNotFound", username, current_pw, new_pw, readOk)
                 /\ UNCHANGED users
            ELSE IF ~ChangePasswordAllowed(current_pw, us[row].PwHash)
            THEN /\ out' = PwOut("CurrentIncorrect", username, current_pw, new_pw, readOk)
                 /\ UNCHANGED users
            ELSE \E salt \in Salts :
                    LET cells == PwCells(HashPw(new_pw, salt))
                    IN  \E k \in 0..Len(cells) :
                           /\ users' = UpdateUser(users, row, cells, k)
                           /\ out' = PwOut(IF k = Len(cells) THEN "PasswordUpdated"
                                           ELSE "Exception",
                                           username, current_pw, new_pw, readOk)

\* a script run of the Profile page up to its forms: require_auth("business")
\* lets the session s1 through and get_current_user finds its row
ProfileShown(s1) ==
    /\ Active(s1)
    /\ Gate(s1[SK_ROLE], "business", HealthFlag(s1)) = "page"

\* a script run of the Profile page that does not get to the form handlers
ProfileNotShown(s1) ==
    IF Active(s1) THEN AuthRun(s1, level) ELSE FormRun(s1)

\* the Update Password button of the Profile page: 9_Profile.py lines 63-82
UpdatePassword(current_pw, new_pw, confirm_pw, cookieOk) ==
    /\ ~rerun
    /\ screen = "page"
    /\ level = "business"
    /\ LET s1  == Preamble(ss, cookie, now, cookieOk)
           chk == PwFormCheck(current_pw, new_pw, confirm_pw)
       IN  IF ~ProfileShown(s1) THEN ProfileNotShown(s1) /\ UNCHANGED users
           ELSE /\ ss' = Touch(s1, now)
                /\ screen' = "page"
                /\ \E readOk \in BOOLEAN :
                      LET row == FindUser(LoadUsers(readOk), s1[SK_USER])
                      IN  IF row = 0
                          THEN /\ out' = PwOut("NoProfile", s1[SK_USER], current_pw,
                                               new_pw, readOk)
                               /\ UNCHANGED users
                          ELSE IF chk # "ok"
                          THEN /\ out' = PwOut(chk, users[row].Username, current_pw,
                                               new_pw, readOk)
                               /\ UNCHANGED users
                          ELSE ChangePassword(users[row].Username, current_pw, new_pw)
    /\ UNCHANGED <<log, cookie, now, level, rerun, pend, txns, t_ws, r_ws, cache, other>>

NameOut(res, username, new_name, readOk) ==
    [op |-> "update_name", res |-> res, u |-> username, n |-> new_name,
     read |-> readOk]

\* the Update Name button of the Profile page: 9_Profile.py lines 41-55 and
\* update_display_name, auth.py lines 340-347
UpdateName(new_name, cookieOk) ==
    /\ ~rerun
    /\ screen = "page"
    /\ level = "business"
    /\ LET s1 == Preamble(ss, cookie, now, cookieOk)
       IN  IF ~ProfileShown(s1)
           THEN ProfileNotShown(s1) /\ UNCHANGED <<users, rerun>>
           ELSE \E readOk \in BOOLEAN, readOk2 \in BOOLEAN, k \in 0..1 :
                   LET row  == FindUser(LoadUsers(readOk), s1[SK_USER])
                       row2 == FindUser(LoadUsers(readOk2), s1[SK_USER])
                       res  == IF row = 0 THEN "NoProfile"
                               ELSE IF Strip(new_name) = "" THEN "NameBlank"
                               ELSE IF Strip(new_name) = users[row].Name THEN "SameName"
                               ELSE IF row2 = 0 THEN "UserNotFound"
                               ELSE IF k = 0 THEN "Exception"
                               ELSE "NameUpdated"
                   IN  /\ out' = NameOut(res, s1[SK_USER], new_name, readOk /\ readOk2)
                       /\ users' = IF res = "NameUpdated"
                                   THEN UpdateUser(users, row2,
                                            << <<"Name", Strip(new_name)>> >>, 1)
                                   ELSE users
                       /\ ss' = IF res = "NameUpdated"
                                THEN Put(Touch(s1, now), SK_NAME, Strip(new_name))
                                ELSE Touch(s1, now)
                       /\ rerun' = (res = "NameUpdated")
                       /\ screen' = IF res = "NameUpdated" THEN "rerun" ELSE "page"
    /\ UNCHANGED <<log, cookie, now, level, pend, txns, t_ws, r_ws, cache, other>>

\* SpecAccount: the life of the accounts on a sheet that holds the owner's
\* verified admin row: registration, verification, sign-in, the Profile
\* page's forms and logout
AccountTokens == {"tok2", "bogus"}
AccountNames  == {"Ally", " "}
PwForms == {<<"password1", "password2", "password2">>,
            <<"password2", "password1", "password1">>,
            <<"password1", "short", "short">>}

InitAccount ==
    /\ users  = SubSeq(SeedUsers, 1, 1)
    /\ log    = <<>>
    /\ ss     = EmptySS
    /\ cookie = NoCookie
    /\ now    = 0
    /\ level  = "business"
    /\ screen = "none"
    /\ rerun  = FALSE
    /\ out    = Outcome("init", "", "", "")
    /\ pend   = {}
    /\ txns   = <<>>
    /\ NoReceiptsPage

NextAccount ==
    \/ \E lvl \in Levels : PageLoad(lvl, TRUE)
    \/ \E cookieOk \in BOOLEAN : Reload("business", cookieOk)
    \/ Rerun(TRUE)
    \/ \E u_in \in {"ALICE", " bob "}, p_in \in Passwords :
          SignIn(u_in, p_in, TRUE, {FALSE})
    \/ RegisterClick(" bob ", "Bo", "b@x", "password1", "password1", TRUE)
    \/ \E v_token \in AccountTokens : VerifyLink(v_token, TRUE)
    \/ VerifyEmail("")
    \/ \E f \in PwForms : UpdatePassword(f[1], f[2], f[3], TRUE)
    \/ \E new_name \in AccountNames : UpdateName(new_name, TRUE)
    \/ Logout(TRUE, {FALSE})

SpecAccount == InitAccount /\ [][NextAccount]_vars

\* ------------------------------------------------ roles set in the sheet
\* Roles other than the admin of the first registration and the personal of
\* the later ones come from the owner typing into the Role column of the
\* Users sheet, as the Admin page tells them to; the column takes any text.
SheetRoles == {ROLE_BUSINESS, "Business"}

\* the owner types a role into the Role cell of a row
EditRole(row, role) ==
    /\ ~rerun
    /\ row \in 1..Len(users)
    /\ users[row].Role # role
    /\ users' = [users EXCEPT ![row].Role = role]
    /\ out' = Outcome("edit", role, users[row].Username, "")
    /\ UNCHANGED <<log, ss, cookie, now, level, screen, rerun, pend, txns, t_ws, r_ws, cache, other>>

\* SpecSheet: sign-in and cookie restore with the roles the sheet holds
NextSheet ==
    \/ \E lvl \in Levels : PageLoad(lvl, TRUE)
    \/ \E lvl \in Levels, cookieOk \in BOOLEAN : Reload(lvl, cookieOk)
    \/ Rerun(TRUE)
    \/ \E u_in \in {" bob ", "carol"}, p_in \in Passwords :
          SignIn(u_in, p_in, TRUE, {FALSE})
    \/ \E cookieOk \in BOOLEAN : Logout(cookieOk, {FALSE})
    \/ \E role \in SheetRoles : EditRole(3, role)
    \/ Tick(MaxShort)

SpecSheet == Init /\ [][NextSheet]_vars

\* ------------------------------------------- a browser over the token's life
\* SpecSession: one browser signs in, browses, unlocks the health section,
\* logs out and opens the app anew, over more hours than a token lives

SessionNames == {"ALICE", "carol"}

NextSession ==
    \/ \E lvl \in Levels, cookieOk \in BOOLEAN : PageLoad(lvl, cookieOk)
    \/ \E lvl \in Levels, cookieOk \in BOOLEAN : Reload(lvl, cookieOk)
    \/ \E cookieOk \in BOOLEAN : Rerun(cookieOk)
    \/ \E u_in \in SessionNames, cookieOk \in BOOLEAN :
          SignIn(u_in, "password1", cookieOk, {FALSE})
    \/ \E hw \in HealthInputs, cookieOk \in BOOLEAN : Unlock(hw, cookieOk)
    \/ \E cookieOk \in BOOLEAN : Logout(cookieOk, {FALSE})
    \/ Tick(MaxTime)

SpecSession == Init /\ [][NextSession]_vars

\* ----------------------------------------- find_matches (12_Receipts.py)
\* Amounts are whole cents, standing for the Python float nearest to the
\* amount in dollars.  Dates are <<"d", n>> for the n-th day of the calendar,
\* <<"bad">> for a text strptime refuses and <<>> for the empty text.
MaxTxns == 2        \* SpecMatch: rows the Business Transactions sheet holds
MaxLong == 6        \* SpecMatch: rows of the sheets of LongLists

Abs(x) == IF x < 0 THEN -x ELSE x

Day(n) == <<"d", n>>

\* datetime.strptime(s, "%Y-%m-%d"): the day, or -1 for ValueError
ParseDate(s) == IF Len(s) = 2 /\ s[1] = "d" THEN s[2] ELSE -1

\* str(h).strip().upper() == "Y" on the texts of the Hubdoc column
HubdocIsY(h) == h \in {"Y", "y", " y ", "Y "}

\* the pairs <<transaction total, receipt total>> of the alphabet that are
\* 150 cents apart and whose float difference is not 1.5:
\* 2.2 - 0.7 = 1.5000000000000002
FloatAbove == {<<220, 70>>}

\* abs(txn["_total"] - total_amount) > 1.50 in float arithmetic
Over150(total, amount) ==
    \/ Abs(total - amount) > 150
    \/ Abs(total - amount) = 150 /\ <<total, amount>> \in FloatAbove

\* A vendor or description text is the sequence of its characters.
UpperCase == <<"A", "B", "C", "D", "E", "F", "G", "H", "I", "J", "K", "L", "M",
               "N", "O", "P", "Q", "R", "S", "T", "U", "V", "W", "X", "Y", "Z">>
LowerCase == <<"a", "b", "c", "d", "e", "f", "g", "h", "i", "j", "k", "l", "m",
               "n", "o", "p", "q", "r", "s", "t", "u", "v", "w", "x", "y", "z">>

\* str.lower()
LowerChar(c) ==
    IF \E k \in 1..26 : UpperCase[k] = c
    THEN LowerCase[CHOOSE k \in 1..26 : UpperCase[k] = c]
    ELSE c

RECURSIVE LowerUpTo(_, _)
LowerUpTo(t, n) ==
    IF n = 0 THEN <<>> ELSE Append(LowerUpTo(t, n - 1), LowerChar(t[n]))

LowerText(t) == LowerUpTo(t, Len(t))

\* needle in hay
Contains(hay, needle) ==
    \E k \in 0..(Len(hay) - Len(needle)) :
        SubSeq(hay, k + 1, k + Len(needle)) = needle

\* str.split(): the runs of characters between the blanks
Words(t) ==
    {SubSeq(t, a, b) : <<a, b>> \in
        {ab \in (1..Len(t)) \X (1..Len(t)) :
            /\ ab[1] <= ab[2]
            /\ \A i \in ab[1]..ab[2] : t[i] # " "
            /\ (ab[1] = 1 \/ t[ab[1] - 1] = " ")
            /\ (ab[2] = Len(t) \/ t[ab[2] + 1] = " ")}}

\* v1[:6]
First6(t) == SubSeq(t, 1, IF Len(t) < 6 THEN Len(t) ELSE 6)

\* lines 265-268: a word of the receipt's vendor longer than 3 characters,
\* or its first 6 characters, is in the transaction's description
VendorHit(vendor, desc) ==
    LET v1 == LowerText(vendor)
        v2 == LowerText(desc)
    IN  \/ \E w \in Words(v1) : Len(w) > 3 /\ Contains(v2, w)
        \/ Contains(v2, First6(v1))

\* lines 250-259: the row gets past the four tests of the loop
IsCandidate(txn, amount, rday) ==
    /\ ~HubdocIsY(txn.Hubdoc)
    /\ ~Over150(txn.total, amount)
    /\ ParseDate(txn.Date) # -1
    /\ Abs(rday - ParseDate(txn.Date)) <= 10

\* MatchScore without the vendor bonus
MatchScore_NoBonus(txn, amount, rday, vendor) ==
    10 * Abs(txn.total - amount) + 100 * Abs(rday - ParseDate(txn.Date))

\* lines 262-272: round(score, 2), in hundredths
MatchScore(txn, amount, rday, vendor) ==
    10 * Abs(txn.total - amount) + 100 * Abs(rday - ParseDate(txn.Date))
       - (IF vendor # <<>> /\ VendorHit(vendor, txn.Vendor) THEN 500 ELSE 0)

\* SortedBy with rows of one score in the reverse order of the sheet
SortedBy_TiesReversed(S, score) ==
    [k \in 1..Cardinality(S) |->
        CHOOSE i \in S :
            Cardinality({j \in S : \/ score[j] < score[i]
                                   \/ score[j] = score[i] /\ j > i}) = k - 1]

\* sorted(candidates, key=score): the indices of S in the order of their
\* scores, rows of one score in the order of the sheet (the sort is stable);
\* the k-th is the row that has k - 1 rows before it
SortedBy(S, score) ==
    [k \in 1..Cardinality(S) |->
        CHOOSE i \in S :
            Cardinality({j \in S : \/ score[j] < score[i]
                                   \/ score[j] = score[i] /\ j < i}) = k - 1]

\* [:5]
FirstFive(seq) == SubSeq(seq, 1, IF Len(seq) < 5 THEN Len(seq) ELSE 5)

\* Candidates with the ValueError of a row's date ending the call
Candidates_AbortOnBadDate(tx, amount, date) ==
    IF date = <<>> \/ amount <= 0 \/ ParseDate(date) = -1 THEN {}
    ELSE IF \E i \in 1..Len(tx) : ParseDate(tx[i].Date) = -1 THEN {}
    ELSE {i \in 1..Len(tx) : IsCandidate(tx[i], amount, ParseDate(date))}

\* the rows of tx that find_matches appends to candidates
Candidates(tx, amount, date) ==
    IF date = <<>> \/ amount <= 0 \/ ParseDate(date) = -1 THEN {}
    ELSE {i \in 1..Len(tx) : IsCandidate(tx[i], amount, ParseDate(date))}

\* the scores of the candidates among the first n rows, by row (0 for a row
\* that is no candidate and gets no score)
RECURSIVE ScoresUpTo(_, _, _, _, _, _)
ScoresUpTo(tx, n, cands, amount, rday, vendor) ==
    IF n = 0 THEN <<>>
    ELSE Append(ScoresUpTo(tx, n - 1, cands, amount, rday, vendor),
                IF n \in cands THEN MatchScore(tx[n], amount, rday, vendor) ELSE 0)

\* find_matches: lines 230-275; the result as <<row index, score>> pairs
FindMatches(tx, amount, date, vendor) ==
    LET cands == Candidates(tx, amount, date)
        score == ScoresUpTo(tx, Len(tx), cands, amount, ParseDate(date), vendor)
        order == FirstFive(SortedBy(cands, score))
    IN  [k \in 1..Len(order) |-> <<order[k], score[order[k]]>>]

\* the texts of the Vendor / Description column and of the receipt's vendor
ACME_TOOLS_INC == <<"A", "C", "M", "E", " ", "T", "O", "O", "L", "S", " ", "I", "N", "C">>
MAZED_CO       == <<"M", "a", "z", "e", "d", " ", "C", "o">>
ACME_CO        == <<"A", "c", "m", "e", " ", "C", "o">>
ZED            == <<"Z", "e", "d">>

\* the rows load_transactions may return
TxnRows ==
    [Hubdoc : {"N"},
     total  : {220, 1150, 1151},
     Date   : {Day(20), Day(31), <<"bad">>},
     Vendor : {ACME_TOOLS_INC}]
    \cup
    [Hubdoc : {" y "}, total : {1150}, Date : {Day(20)}, Vendor : {ACME_TOOLS_INC}]
    \cup
    [Hubdoc : {""}, total : {849, 850}, Date : {Day(10), Day(9)},
     Vendor : {MAZED_CO}]
    \cup
    [Hubdoc : {"N"}, total : {850, 1150}, Date : {Day(20)}, Vendor : {MAZED_CO}]

TxnLists == UNION {[1..n -> TxnRows] : n \in 0..MaxTxns}

\* sheets of more rows than find_matches returns, every row within $1.50
\* and 10 days of the call (1000, Day(20))
LongRows ==
    {[Hubdoc |-> "N", total |-> 1150, Date |-> Day(20), Vendor |-> ACME_TOOLS_INC],
     [Hubdoc |-> "N", total |-> 850,  Date |-> Day(20), Vendor |-> MAZED_CO]}

LongLists == [1..MaxLong -> LongRows]

MatchVendors == {<<>>, ACME_CO, ZED}

\* the calls of find_matches: amount, date, vendor
MatchInputs ==
    ({70, 1000} \X {Day(20)} \X MatchVendors)
    \cup {<<0, Day(20), <<>>>>, <<1000, <<"bad">>, ACME_CO>>, <<1000, <<>>, <<>>>>}

\* the Business Transactions sheet is read
InitMatch ==
    /\ users  = <<>>
    /\ log    = <<>>
    /\ ss     = EmptySS
    /\ cookie = NoCookie
    /\ now    = 0
    /\ level  = "business"
    /\ screen = "none"
    /\ rerun  = FALSE
    /\ out    = Outcome("init", "", "", "")
    /\ pend   = {}
    /\ txns   \in TxnLists \cup LongLists
    /\ NoReceiptsPage

\* TxnsAfterMatch with the score written into the record of the list
TxnsAfterMatch_InPlace(tx, res) ==
    [i \in 1..Len(tx) |->
        IF \E k \in 1..Len(res) : res[k][1] = i
        THEN [Hubdoc |-> tx[i].Hubdoc, total |-> tx[i].total, Date |-> tx[i].Date,
              Vendor |-> tx[i].Vendor,
              match_score |-> (CHOOSE k \in 1..Len(res) : res[k][1] = i)]
        ELSE tx[i]]

\* lines 271-273: the score is written into a copy of the record, so the
\* list the caller passed is after the call what it was before
TxnsAfterMatch(tx, res) == tx

\* find_matches is called
Match(amount, date, vendor) ==
    /\ out' = [op |-> "match", amount |-> amount, date |-> date,
               vendor |-> vendor, res |-> FindMatches(txns, amount, date, vendor)]
    /\ txns' = TxnsAfterMatch(txns, FindMatches(txns, amount, date, vendor))
    /\ UNCHANGED <<users, log, ss, cookie, now, level, screen, rerun, pend, t_ws, r_ws, cache, other>>

NextMatch ==
    \E call \in MatchInputs : Match(call[1], call[2], call[3])

SpecMatch == InitMatch /\ [][NextMatch]_vars

\* ------------------------------------------------- the Receipts page
\* pages/12_Receipts.py.  Every script run of the page loads the two
\* worksheets through st.cache_data (lines 327-328), which every browser
\* session of the server shares.  A worksheet row is addressed by its index:
\* rows are appended, never moved.

MaxReceipts == 2

\* load_receipts: a failed read gives the empty list
LoadReceipts(ok) == IF ok THEN r_ws ELSE <<>>

\* load_transactions with a failed read giving the rows all the same
LoadTransactions_IgnoreError(ok) == t_ws

\* load_transactions, lines 103-109: a failed read gives the empty list
LoadTransactions(ok) == IF ok THEN t_ws ELSE <<>>

\* @st.cache_data: the cached value while there is one, else the function's
\* result
CachedReceipts(rOk) ==
    IF cache.receipts # <<>> THEN cache.receipts[1] ELSE LoadReceipts(rOk)

CachedTransactions(tOk) ==
    IF cache.txns # <<>> THEN cache.txns[1] ELSE LoadTransactions(tOk)

\* st.cache_data after the two loads of a script run
Filled(rOk, tOk) ==
    [receipts |-> <<CachedReceipts(rOk)>>, txns |-> <<CachedTransactions(tOk)>>]

\* how the script run got its txns
Fetch(tOk) ==
    IF cache.txns # <<>> THEN "hit" ELSE IF tOk THEN "ok" ELSE "failed"

\* line 491: find_matches is called for a positive total only
UploadMatches(tx, call) ==
    IF call[1] > 0 THEN FindMatches(tx, call[1], call[2], call[3]) ELSE <<>>

\* the sheet rows a list of matches offers
Offered(res) == {res[j][1] : j \in 1..Len(res)}

\* mark_txn_matched, line 290: Hubdoc = Y in the row
MarkTxnMatched(ws, txn_row) == [ws EXCEPT ![txn_row].Hubdoc = "Y"]

\* update_receipt_match, lines 309-310, the first k of its two cells written
UpdateReceiptMatch(ws, receipt_row, txn_row, k) ==
    [ws EXCEPT ![receipt_row] =
        [@ EXCEPT !.status = IF k >= 1 THEN "Matched" ELSE @,
                  !.txn    = IF k >= 2 THEN txn_row ELSE @]]

\* lines 550-562: the row the upload tab appends (txn 0 is the empty cell)
ReceiptRow(call, sel) ==
    [status |-> IF sel # 0 THEN "Matched" ELSE "Unmatched", txn |-> sel,
     total |-> call[1], date |-> call[2], vendor |-> call[3]]

\* lines 586-589: the receipts of the review queue
Pending(rl) == {r \in 1..Len(rl) : rl[r].status # "Matched"}

\* line 640: the candidates of a receipt of the queue
QueueCandidates(tx, rec) == FindMatches(tx, rec.total, rec.date, rec.vendor)

\* the receipts the upload tab is filled in with: total, date, vendor
ReceiptInputs ==
    {<<1000, Day(20), ZED>>, <<0, Day(20), <<>>>>}

\* the Business Transactions worksheet holds two unflagged rows, the first
\* within $1.50 of the receipts that are uploaded
InitReceipts ==
    /\ users  = <<>>
    /\ log    = <<>>
    /\ ss     = EmptySS
    /\ cookie = NoCookie
    /\ now    = 0
    /\ level  = "business"
    /\ screen = "none"
    /\ rerun  = FALSE
    /\ out    = Outcome("init", "", "", "")
    /\ pend   = {}
    /\ txns   = <<>>
    /\ t_ws   = <<[Hubdoc |-> "N", total |-> 1150, Date |-> Day(20),
                   Vendor |-> ACME_TOOLS_INC],
                  [Hubdoc |-> "N", total |-> 220, Date |-> Day(20),
                   Vendor |-> MAZED_CO]>>
    /\ r_ws   = <<>>
    /\ cache  = EmptyCache
    /\ other  = {}

\* a script run that shows the upload tab with the matches of the receipt
\* typed in; nothing is clicked
UploadRun(call, rOk, tOk) ==
    LET tl  == CachedTransactions(tOk)
        res == UploadMatches(tl, call)
    IN  /\ txns' = TxnsAfterMatch(tl, res)
        /\ cache' = Filled(rOk, tOk)
        /\ out' = [op |-> "match", amount |-> call[1], date |-> call[2],
                   vendor |-> call[3], res |-> res, fetch |-> Fetch(tOk)]
        /\ UNCHANGED <<users, log, ss, cookie, now, level, screen, rerun, pend,
                       t_ws, r_ws, other>>

\* lines 323-328: Refresh clears the cache and the rerun loads anew
Refresh(rOk, tOk) ==
    /\ txns' = LoadTransactions(tOk)
    /\ cache' = [receipts |-> <<LoadReceipts(rOk)>>, txns |-> <<LoadTransactions(tOk)>>]
    /\ out' = [op |-> "refresh", rOk |-> rOk, tOk |-> tOk]
    /\ UNCHANGED <<users, log, ss, cookie, now, level, screen, rerun, pend,
                   t_ws, r_ws, other>>

\* the ttl of a cached result (30 s for load_receipts, 60 s for
\* load_transactions) runs out
Expire(key) ==
    /\ cache[key] # <<>>
    /\ cache' = [cache EXCEPT ![key] = <<>>]
    /\ out' = [op |-> "expire", key |-> key]
    /\ UNCHANGED <<users, log, ss, cookie, now, level, screen, rerun, pend,
                   txns, t_ws, r_ws, other>>

\* lines 535-575: Save Receipt with the match sel ticked (0: none).  Of the
\* writes (append_row, the Hubdoc cell, the Notes cell) the first k are made
\* before one raises; the cache is cleared after the last.
UploadSave(call, rOk, tOk) ==
    LET tl  == CachedTransactions(tOk)
        res == UploadMatches(tl, call)
    IN  \E sel \in {0} \cup Offered(res) :
        \E k \in 0..(IF sel = 0 THEN 1 ELSE 3) :
        LET all == IF sel = 0 THEN 1 ELSE 3
        IN  /\ txns' = TxnsAfterMatch(tl, res)
            /\ IF call[3] = <<>>
               THEN /\ out' = [op |-> "save", res |-> "NoVendor", sel |-> sel]
                    /\ cache' = Filled(rOk, tOk)
                    /\ UNCHANGED <<t_ws, r_ws>>
               ELSE /\ Len(r_ws) < MaxReceipts
                    /\ r_ws' = IF k >= 1 THEN Append(r_ws, ReceiptRow(call, sel))
                               ELSE r_ws
                    /\ t_ws' = IF sel # 0 /\ k >= 2 THEN MarkTxnMatched(t_ws, sel)
                               ELSE t_ws
                    /\ cache' = IF k = all THEN EmptyCache ELSE Filled(rOk, tOk)
                    /\ out' = [op |-> "save",
                               res |-> IF k = all THEN "Saved" ELSE "Failed",
                               sel |-> sel]
            /\ UNCHANGED <<users, log, ss, cookie, now, level, screen, rerun,
                           pend, other>>

\* lines 637-678: Confirm Match of a receipt r of the queue with one of its
\* candidates, sel.  Of the writes (Match Status, Matched Txn Row, the Hubdoc
\* cell, the Notes cell) the first k are made before one raises; the cache
\* is cleared after the last.
QueueConfirm(rOk, tOk) ==
    LET rl == CachedReceipts(rOk)
        tl == CachedTransactions(tOk)
    IN  \E r \in Pending(rl) :
        \E sel \in Offered(QueueCandidates(tl, rl[r])) :
        \E k \in 0..4 :
            /\ txns' = TxnsAfterMatch(tl, QueueCandidates(tl, rl[r]))
            /\ r_ws' = UpdateReceiptMatch(r_ws, r, sel, k)
            /\ t_ws' = IF k >= 3 THEN MarkTxnMatched(t_ws, sel) ELSE t_ws
            /\ cache' = IF k = 4 THEN EmptyCache ELSE Filled(rOk, tOk)
            /\ out' = [op |-> "confirm",
                       res |-> IF k = 4 THEN "Matched" ELSE "Failed", sel |-> sel]
            /\ UNCHANGED <<users, log, ss, cookie, now, level, screen, rerun,
                           pend, other>>

\* the script run of another browser session in which Confirm Match is
\* clicked: its loads and its choice of receipt and candidate ...
OtherConfirmLoad(rOk, tOk) ==
    LET rl == CachedReceipts(rOk)
        tl == CachedTransactions(tOk)
    IN  \E r \in Pending(rl) :
        \E sel \in Offered(QueueCandidates(tl, rl[r])) :
            /\ other = {}
            /\ other' = {[rec |-> r, sel |-> sel]}
            /\ cache' = Filled(rOk, tOk)
            /\ out' = [op |-> "other_load", sel |-> sel]
            /\ UNCHANGED <<users, log, ss, cookie, now, level, screen, rerun,
                           pend, txns, t_ws, r_ws>>

\* ... and its writes, lines 668-674
OtherConfirmWrite(c, k) ==
    /\ c \in other
    /\ other' = other \ {c}
    /\ r_ws' = UpdateReceiptMatch(r_ws, c.rec, c.sel, k)
    /\ t_ws' = IF k >= 3 THEN MarkTxnMatched(t_ws, c.sel) ELSE t_ws
    /\ cache' = IF k = 4 THEN EmptyCache ELSE cache
    /\ out' = [op |-> "other_confirm", res |-> IF k = 4 THEN "Matched" ELSE "Failed",
               sel |-> c.sel]
    /\ UNCHANGED <<users, log, ss, cookie, now, level, screen, rerun, pend,
                   txns>>

\* the outcomes of the reads of the Receipts worksheet that are followed
\* (a failed read shows an empty queue, in which nothing can be clicked)
ReceiptReads == {TRUE}

NextReceipts ==
    \/ \E call \in ReceiptInputs, rOk \in ReceiptReads, tOk \in BOOLEAN :
          UploadRun(call, rOk, tOk)
    \/ \E rOk \in ReceiptReads, tOk \in BOOLEAN : Refresh(rOk, tOk)
    \/ \E key \in {"receipts", "txns"} : Expire(key)
    \/ \E call \in ReceiptInputs, rOk \in ReceiptReads, tOk \in BOOLEAN :
          UploadSave(call, rOk, tOk)
    \/ \E rOk \in ReceiptReads, tOk \in BOOLEAN : QueueConfirm(rOk, tOk)
    \/ \E rOk \in ReceiptReads, tOk \in BOOLEAN : OtherConfirmLoad(rOk, tOk)
    \/ \E c \in other, k \in 0..4 : OtherConfirmWrite(c, k)

SpecReceipts == InitReceipts /\ [][NextReceipts]_vars

\* ------------------------------------------------------- the token codec
TokUsers == {"alice", "bob"}
TokNames == {"Al"}
Tampers  == {"role", "exp", "sig", "nosplit", "garbage"}

\* a token an attacker makes out of tok without the secret
Tamper(tok, kind) ==
    LET payload == tok[2][1]
        sig     == tok[2][2]
        p       == JsonLoads(payload)
    IN  CASE kind = "role" ->
               B64Encode(<<JsonDumps(p.u, p.n,
                              IF p.r = ROLE_ADMIN THEN ROLE_BUSINESS ELSE ROLE_ADMIN,
                              p.exp), sig>>)
          [] kind = "exp"     -> B64Encode(<<JsonDumps(p.u, p.n, p.r, p.exp + 1), sig>>)
          [] kind = "sig"     -> B64Encode(<<payload, Hmac("guessed-secret", payload)>>)
          [] kind = "nosplit" -> B64Encode(<<payload>>)
          [] kind = "garbage" -> <<"not-base64">>

\* _make_token is called
Issue(u, n, r) ==
    /\ cookie' = MakeToken(u, n, r, now)
    /\ out' = Outcome("issue", "", u, "")
    /\ UNCHANGED <<users, log, ss, now, level, screen, rerun, pend, txns, t_ws, r_ws, cache, other>>

\* the tokens _make_token produces
Issued(tok) ==
    \E u \in TokUsers, n \in TokNames, r \in Roles, t0 \in 0..MaxTokTime :
        tok = MakeToken(u, n, r, t0)

\* the token is changed on its way
Forge(kind) ==
    /\ Issued(cookie)
    /\ cookie' = Tamper(cookie, kind)
    /\ out' = Outcome("forge", kind, "", "")
    /\ UNCHANGED <<users, log, ss, now, level, screen, rerun, pend, txns, t_ws, r_ws, cache, other>>

\* _verify_token is called
Check ==
    /\ cookie # NoCookie
    /\ out' = [op |-> "verify", res |-> VerifyToken(cookie, now)]
    /\ UNCHANGED <<users, log, ss, cookie, now, level, screen, rerun, pend, txns, t_ws, r_ws, cache, other>>

NextToken ==
    \/ \E u \in TokUsers, n \in TokNames, r \in Roles : Issue(u, n, r)
    \/ \E kind \in Tampers : Forge(kind)
    \/ Check
    \/ Tick(MaxTokTime)

SpecToken == Init /\ [][NextToken]_vars

\* ------------------------------------------------------------------ claims
\* the Sign In handler ran in this step
SignInStep == out'.op = "signin"

\* the row of the Users sheet the handler's username names (0: none)
SignInRow == FindUser(users, out'.u)

NothingEstablished ==
    /\ ss' = ss
    /\ ~Active(ss')
    /\ cookie' = cookie
    /\ log' = log

\* C1: a sign-in attempt for a user whose Verified flag is not "Yes" sets no
\* session state, issues no cookie token and writes no Login row, whatever
\* the password.
C1_UnverifiedNeverSignsIn ==
    [][ (SignInStep /\ SignInRow # 0 /\ users[SignInRow].Verified # "Yes")
            => (out'.res # "SignedIn" /\ NothingEstablished) ]_vars

\* the unverified user has tried to sign in with the password of the record
C1_Witness ==
    /\ out.op = "signin"
    /\ out.u = "dave"
    /\ CheckPw(out.p, users[4].PwHash)
    /\ users[4].Verified = "No"
    /\ out.res = "NotVerified"
    /\ ~Active(ss)

\* C2 as stated, the Users sheet being read: an existing username with a
\* password that does not match is rejected as InvalidCredentials for every
\* user record, whatever its Verified flag, and an unknown username as well;
\* nothing is established.
C2_WrongPasswordAlwaysInvalidCredentials ==
    [][ /\ (SignInStep /\ out'.read /\ SignInRow # 0
               /\ ~CheckPw(out'.p, users[SignInRow].PwHash))
            => (out'.res = "InvalidCredentials" /\ NothingEstablished)
        /\ (SignInStep /\ SignInRow = 0)
            => (out'.res = "InvalidCredentials" /\ NothingEstablished) ]_vars

\* C2 amended: an existing username with a password that does not match is
\* rejected as InvalidCredentials when the record's Verified flag is "Yes",
\* and as NotVerified when it is not (as InvalidCredentials again when the
\* read of the Users sheet fails); an unknown username is rejected as
\* InvalidCredentials; in every case nothing is established.
C2_WrongPasswordRejected ==
    [][ /\ (SignInStep /\ SignInRow # 0
               /\ ~CheckPw(out'.p, users[SignInRow].PwHash))
            => /\ out'.res = (IF out'.read /\ users[SignInRow].Verified # "Yes"
                              THEN "NotVerified" ELSE "InvalidCredentials")
               /\ NothingEstablished
        /\ (SignInStep /\ SignInRow = 0)
            => (out'.res = "InvalidCredentials" /\ NothingEstablished) ]_vars

\* a verified user has tried to sign in with a wrong password
C2_Witness ==
    /\ out.op = "signin"
    /\ out.u = "ALICE"
    /\ out.read
    /\ users[1].Verified = "Yes"
    /\ ~CheckPw(out.p, users[1].PwHash)
    /\ out.res = "InvalidCredentials"
    /\ ~Active(ss)

\* the session, cookie and Login row a sign-in of Users row u is to leave
SessionOf(u) ==
    /\ DOMAIN ss' = {SK_USER, SK_NAME, SK_ROLE, SK_EXPIRES}
    /\ ss'[SK_USER] = u.Username
    /\ ss'[SK_NAME] = u.Name
    /\ ss'[SK_ROLE] = u.Role
    /\ ss'[SK_EXPIRES] = now + SESSION_HOURS

LoginRow(u) == LogRow(u.Username, u.Name, u.Role, "Login")

\* a verified user's username with the matching password
GoodSignIn ==
    /\ SignInStep
    /\ SignInRow # 0
    /\ users[SignInRow].Verified = "Yes"
    /\ CheckPw(out'.p, users[SignInRow].PwHash)

\* C3 as stated, the Users sheet being read and the cookie and log writes
\* granted to be best effort: a verified user's username with the matching
\* password always establishes the session (expiry now + 6 h), with the
\* cookie token and one Login row, whatever the role and the page's level.
C3_GoodSignInAlwaysEstablishes ==
    [][ (GoodSignIn /\ out'.read) =>
            /\ out'.res = "SignedIn"
            /\ SessionOf(users[SignInRow])
            /\ cookie' \in {cookie,
                            MakeToken(users[SignInRow].Username,
                                      users[SignInRow].Name,
                                      users[SignInRow].Role, now)}
            /\ log' \in {log, Append(log, LoginRow(users[SignInRow]))} ]_vars

\* C3 amended: a verified user's username with the matching password
\* establishes the session (expiry now + 6 h) unless the page's level is
\* business and the role is neither business nor admin, in which case it is
\* rejected and nothing is established; the cookie token is issued unless the
\* cookie write fails and one Login row is appended unless the log write
\* fails; when the read of the Users sheet fails the attempt is rejected as
\* InvalidCredentials and nothing is established.
C3_GoodSignInEstablishes ==
    [][ GoodSignIn =>
            IF ~out'.read
            THEN out'.res = "InvalidCredentials" /\ NothingEstablished
            ELSE IF level = "business"
               /\ users[SignInRow].Role \notin {ROLE_BUSINESS, ROLE_ADMIN}
            THEN out'.res = "RoleRejected" /\ NothingEstablished
            ELSE /\ out'.res = "SignedIn"
                 /\ SessionOf(users[SignInRow])
                 /\ cookie' \in {cookie,
                                 MakeToken(users[SignInRow].Username,
                                           users[SignInRow].Name,
                                           users[SignInRow].Role, now)}
                 /\ log' \in {log, Append(log, LoginRow(users[SignInRow]))} ]_vars

\* the personal-role user has signed in on a personal-level page: session,
\* cookie token and Login row are in place
C3_Witness ==
    /\ out.op = "signin"
    /\ out.res = "SignedIn"
    /\ out.u = "carol"
    /\ level = "personal"
    /\ rerun
    /\ ss[SK_USER] = "carol" /\ ss[SK_NAME] = "Ca" /\ ss[SK_ROLE] = ROLE_PERSONAL
    /\ ss[SK_EXPIRES] = now + SESSION_HOURS
    /\ cookie = MakeToken("carol", "Ca", ROLE_PERSONAL, now)
    /\ Len(log) > 0 /\ log[Len(log)] = LogRow("carol", "Ca", ROLE_PERSONAL, "Login")

\* a script run found an active session and took it through the role check
Checked == out.op = "load" /\ out.res \in {"page", "health", "denied"}

\* the authorization matrix of the spec
Allowed(role, lvl) ==
    \/ role = ROLE_ADMIN
    \/ role = ROLE_BUSINESS /\ lvl = "business"
    \/ role = ROLE_PERSONAL /\ lvl = "personal"

\* C5: for an active session the role check of require_auth(level) passes iff
\* role = admin, or role = business and level = business, or role = personal
\* and level = personal; every other combination is denied and the run
\* stops before anything of the page, the sidebar included, is rendered.
C5_AuthorizationMatrix ==
    Checked =>
        /\ Active(ss)
        /\ (out.res \in {"page", "health"}) <=> Allowed(ss[SK_ROLE], level)
        /\ (out.res = "denied") <=> ~Allowed(ss[SK_ROLE], level)
        /\ screen = out.res

\* the business-role user has been denied a personal-level page
C5_Witness ==
    /\ Checked
    /\ ss[SK_ROLE] = ROLE_BUSINESS
    /\ level = "personal"
    /\ out.res = "denied"

\* C6: require_auth("personal") lets a session through to the page only with
\* the health flag set, admin sessions included; the flag is set only by the
\* Unlock button with the exact configured passphrase; a wrong passphrase
\* leaves the flag unset and the session's username, name and role as they
\* were.
C6_HealthLock ==
    [][ /\ (out'.op = "load" /\ out'.res = "page" /\ level' = "personal")
            => HealthFlag(ss')
        /\ (HealthFlag(ss') /\ ~HealthFlag(ss))
            => (out'.op = "unlock" /\ out'.res = "unlocked"
                /\ out'.p = HealthPassword /\ Active(ss))
        /\ (out'.op = "unlock" /\ out'.p # HealthPassword)
            => /\ ~HealthFlag(ss')
               /\ out'.res = "wrong"
               /\ Active(ss')
               /\ ss'[SK_USER] = ss[SK_USER]
               /\ ss'[SK_NAME] = ss[SK_NAME]
               /\ ss'[SK_ROLE] = ss[SK_ROLE] ]_vars

\* the admin has entered a wrong passphrase at the health prompt
C6_Witness ==
    /\ out.op = "unlock"
    /\ out.res = "wrong"
    /\ out.p # HealthPassword
    /\ ss[SK_ROLE] = ROLE_ADMIN
    /\ ~HealthFlag(ss)
    /\ screen = "health"

\* C7: every script run that finds an active session sets its expiry to the
\* current time + 6 hours, and a session whose expiry has not passed is still
\* the active session of the next script run; so a session checked at hour 5
\* is valid at hour 10.
C7_SlidingExpiry ==
    [][ /\ (out'.op = "load" /\ out'.res \in {"page", "health", "denied"})
            => ss'[SK_EXPIRES] = now' + SESSION_HOURS
        /\ (out'.op = "load" /\ Active(ss) /\ now <= ss[SK_EXPIRES])
            => /\ out'.res \in {"page", "health", "denied"}
               /\ ss'[SK_USER] = ss[SK_USER] ]_vars

\* a session signed in at hour 0 (the cookie token of that hour has run out)
\* passes the check at hour 10
C7_Witness ==
    /\ now = 10
    /\ Checked
    /\ out.res = "page"
    /\ cookie = MakeToken("alice", "Al", ROLE_ADMIN, 0)
    /\ ss[SK_USER] = "alice"
    /\ ss[SK_EXPIRES] = 10 + SESSION_HOURS

\* the session's expiry has passed
Lapsed == Truthy(ss, SK_USER) /\ Has(ss, SK_EXPIRES) /\ now > ss[SK_EXPIRES]

C9_LogoutClearsSessionAndCookie ==
    [][ (out'.op = "logout") =>
            /\ log' \in {log, Append(log, LogRow(ss[SK_USER], ss[SK_NAME],
                                                 ss[SK_ROLE], "Logout"))}
            /\ DOMAIN ss' = {}
            /\ ~Active(ss')
            /\ cookie' = NoCookie ]_vars

\* C4: _verify_token(_make_token(u, n, r)) gives exactly u, n and r before the
\* token's expiry (issue time + 6 hours) and None after it; a token that
\* _make_token did not produce under the secret gives None.
C4_TokenRoundTrip ==
    (out.op = "verify") =>
        /\ \A u \in TokUsers, n \in TokNames, r \in Roles, t0 \in 0..MaxTokTime :
              (cookie = MakeToken(u, n, r, t0)) =>
                 /\ (now < t0 + SESSION_HOURS) =>
                        (out.res = [u |-> u, n |-> n, r |-> r, exp |-> t0 + SESSION_HOURS])
                 /\ (now > t0 + SESSION_HOURS) => (out.res = None)
        /\ ~Issued(cookie) => (out.res = None)

\* a token with a changed role and the old signature has been refused before
\* its expiry
C4_Witness ==
    /\ out.op = "verify"
    /\ out.res = None
    /\ ~Issued(cookie)
    /\ IsB64(cookie) /\ Splits(cookie[2])
    /\ JsonLoads(cookie[2][1]).r = ROLE_ADMIN
    /\ now < JsonLoads(cookie[2][1]).exp

\* a registration whose username and email no row has yet has gone through
FreshRegistration ==
    /\ out'.op = "register"
    /\ out'.res = "Created"
    /\ DupCheck(users, out'.u, out'.e) = "ok"

\* C10 as stated: of the successful registrations with distinct usernames and
\* emails the first ever made gets role admin and every later one personal.
C10_FirstAdminRestPersonal ==
    [][ FreshRegistration =>
            /\ users' = Append(users, users'[Len(users')])
            /\ users'[Len(users')].Role =
                  (IF Len(users) = 0 THEN ROLE_ADMIN ELSE ROLE_PERSONAL) ]_vars

\* a register call has run in this step
RegisterStep == out'.op = "register" /\ out'.res \notin
                   {"AllFieldsRequired", "PasswordsDontMatch", "PasswordTooShort"}

\* no two rows of the Users sheet share a username or an email
UniqueUsers ==
    \A i, j \in 1..Len(users) :
        (i # j) => /\ Lower(users[i].Username) # Lower(users[j].Username)
                   /\ Lower(users[i].Email) # Lower(users[j].Email)

\* C11 as stated: a register call whose username or email is, whatever the
\* case of the letters, that of a row of the Users sheet fails as a duplicate
\* username or a duplicate email, appends no row and sends no email; so no
\* two rows ever share a username or an email.
C11_DuplicatesRejected ==
    [][ /\ (RegisterStep /\ DupCheck(users, out'.u, out'.e) # "ok")
            => /\ out'.res \in {"DuplicateUsername", "DuplicateEmail"}
               /\ users' = users
               /\ out'.mail = ""
        /\ UniqueUsers => UniqueUsers' ]_vars

\* the register call of another session that this step brings to its end
Finishing == CHOOSE c \in pend : c \notin pend'

\* C12: a register call decides on the list of users it read when it
\* started, not on the sheet at the time of its append: it appends its row
\* iff that list holds neither its username nor its email, also when the
\* sheet has come to hold the username in between; so two calls with one
\* username that both read before either appends both succeed and leave two
\* rows with that username.
C12_CheckAndAppendNotAtomic ==
    [][ (out'.op = "register" /\ pend' # pend) =>
            IF DupCheck(Finishing.loaded, Finishing.u, Finishing.e) # "ok"
            THEN /\ out'.res \in {"DuplicateUsername", "DuplicateEmail"}
                 /\ users' = users
            ELSE /\ out'.res \in {"Created", "Exception"}
                 /\ (out'.res = "Exception") => (users' = users)
                 /\ (out'.res = "Created") =>
                       /\ Len(users') = Len(users) + 1
                       /\ users' = Append(users, users'[Len(users')])
                       /\ users'[Len(users')].Username = Finishing.u
                       /\ users'[Len(users')].Email = Finishing.e ]_vars

\* two register calls for alice, each of which read the sheet when it was
\* empty, have both succeeded: the sheet holds two rows of that username
C12_Witness ==
    /\ Len(users) = 2
    /\ users[1].Username = "alice"
    /\ users[2].Username = "alice"
    /\ out.op = "register"
    /\ out.res = "Created"
    /\ out.read
    /\ out.role = ROLE_ADMIN
    /\ pend = {}

\* C13: a register call that gets past the duplicate check and appends its
\* row returns success and leaves exactly one new row, with Verified "No" and
\* a verification token that is not empty, whether the verification email is
\* sent, fails or is not configured; no step takes a row away again.
C13_EmailFailureNotFatal ==
    [][ /\ (RegisterStep /\ users' # users)
            => /\ out'.res = "Created"
               /\ out'.mail \in MailOutcomes
               /\ Len(users') = Len(users) + 1
               /\ users' = Append(users, users'[Len(users')])
               /\ users'[Len(users')].Username = out'.u
               /\ users'[Len(users')].Verified = "No"
               /\ users'[Len(users')].Token # ""
        /\ (RegisterStep /\ users' = users) => out'.res # "Created"
        /\ Len(users') >= Len(users)
        /\ SubSeq(users', 1, Len(users)) = users ]_vars

\* a registration whose verification email could not be sent has succeeded
\* and its row is on the sheet
C13_Witness ==
    /\ out.op = "register"
    /\ out.res = "Created"
    /\ out.mail = "failed"
    /\ Len(users) > 0
    /\ users[Len(users)].Username = out.u
    /\ users[Len(users)].Verified = "No"
    /\ users[Len(users)].Token # ""

\* _verify has run in this step
VerifyStep == out'.op = "verify_email"

\* the row of the Users sheet that holds the token _verify was given (0: none)
TokenRow == FindByToken(users, out'.tok)

\* row i of the Users sheet is left as it is but for its Verified flag and
\* its token
OnlyVerifiedAndToken(i) ==
    users' = [users EXCEPT ![i] = [users[i] EXCEPT !.Verified = users'[i].Verified,
                                                   !.Token = users'[i].Token]]

Accepted(token) ==
    \E i \in 2..Len(users) :
        /\ VerifyTokens[i] = token
        /\ users[i].Verified = "Yes"
        /\ users[i].Token = ""

\* C15 as stated: _verify with a token it has accepted once returns success
\* again ("already verified") and leaves the user verified.
C15_VerifyEmailIdempotent ==
    [][ (VerifyStep /\ out'.read /\ Accepted(out'.tok))
            => /\ out'.res \in {"Verified", "AlreadyVerified"}
               /\ users' = users ]_vars

\* C16: a row of the Users sheet whose Verified flag is "Yes" keeps that
\* flag through every step of registration, verification, sign-in, password
\* change, name change and logout, in any order.
C16_VerifiedIsOneWay ==
    [][ \A i \in 1..Len(users) :
           (users[i].Verified = "Yes")
              => (i <= Len(users') /\ users'[i].Verified = "Yes") ]_vars

\* bob has registered and redeemed his token, the owner has then changed the
\* password: both rows are verified
C16_Witness ==
    /\ out.op = "change_password"
    /\ out.res = "PasswordUpdated"
    /\ Len(users) = 2
    /\ users[1].PwHash = HashPw("password2", "salt1")
    /\ users[1].Verified = "Yes"
    /\ users[2].Username = "bob"
    /\ users[2].Verified = "Yes"
    /\ users[2].Token = ""

\* change_password has been called in this step
PwStep == /\ out'.op = "change_password"
          /\ out'.res \in {"UserNotFound", "CurrentIncorrect",
                           "PasswordUpdated", "Exception"}

\* the row of the Users sheet change_password's username names (0: none)
PwRow == FindUser(users, out'.u)

GoodToken(tok, t) ==
    /\ IsB64(tok)
    /\ Splits(tok[2])
    /\ tok[2][2] = Hmac(SessionSecret, tok[2][1])
    /\ t <= JsonLoads(tok[2][1]).exp

\* C18 as stated: a session restored from the cookie's token had a token
\* whose signature validates under the secret, whose expiry had not passed
\* at the time, and whose role is one of admin, business, personal; and no
\* active session ever has a role outside these three.
C18_TokenSessionInvariant ==
    [][ /\ (out'.op = "reload" /\ Active(ss'))
            => /\ GoodToken(cookie, now)
               /\ JsonLoads(cookie[2][1]).r \in Roles
               /\ ss'[SK_ROLE] = JsonLoads(cookie[2][1]).r
        /\ Active(ss') => (ss'[SK_ROLE] \in Roles) ]_vars

Returned == {out.res[k][1] : k \in 1..Len(out.res)}

\* the conditions of the claim, in decimal arithmetic
Eligible(txn, amount, date) ==
    /\ ~HubdocIsY(txn.Hubdoc)
    /\ ParseDate(txn.Date) # -1
    /\ Abs(txn.total - amount) <= 150
    /\ Abs(ParseDate(date) - ParseDate(txn.Date)) <= 10

OccursAt(w, d, k) ==
    /\ k + Len(w) <= Len(d)
    /\ \A j \in 1..Len(w) : d[k + j] = w[j]

\* positions a..b of text v are a whitespace-separated token of v
TokenAt(v, a, b) ==
    /\ a <= b
    /\ \A i \in a..b : v[i] # " "
    /\ (a = 1 \/ v[a - 1] = " ")
    /\ (b = Len(v) \/ v[b + 1] = " ")

\* the vendor overlap of the claim
Overlap(vendor, desc) ==
    LET v == LowerText(vendor)
        d == LowerText(desc)
        n == IF Len(v) < 6 THEN Len(v) ELSE 6
    IN  /\ vendor # <<>>
        /\ \/ \E a, b \in 1..Len(v) :
                 /\ TokenAt(v, a, b)
                 /\ b - a + 1 > 3
                 /\ \E k \in 0..Len(d) : OccursAt(SubSeq(v, a, b), d, k)
           \/ \E k \in 0..Len(d) : OccursAt(SubSeq(v, 1, n), d, k)

AmountGap(i) == Abs(txns[i].total - out.amount)
DayGap(i)    == Abs(ParseDate(out.date) - ParseDate(txns[i].Date))

\* C21: the score of every row find_matches returns is its amount
\* difference in dollars times 10 plus its date difference in days, less 5
\* exactly when the vendor text is not empty and a token of it longer than 3
\* characters, or its first 6 characters, stands in the row's description,
\* all in lower case (scores are in hundredths here); so of two returned rows
\* with the same amount and date difference the one with the overlap comes
\* before the one without, whatever their order on the sheet.
C21_MatchScore ==
    (out.op = "match") =>
        /\ \A k \in 1..Len(out.res) :
              out.res[k][2] =
                 10 * AmountGap(out.res[k][1]) + 100 * DayGap(out.res[k][1])
                    - (IF Overlap(out.vendor, txns[out.res[k][1]].Vendor)
                       THEN 500 ELSE 0)
        /\ \A k, l \in 1..Len(out.res) :
              (/\ AmountGap(out.res[k][1]) = AmountGap(out.res[l][1])
               /\ DayGap(out.res[k][1]) = DayGap(out.res[l][1])
               /\ Overlap(out.vendor, txns[out.res[k][1]].Vendor)
               /\ ~Overlap(out.vendor, txns[out.res[l][1]].Vendor))
              => k < l

\* two rows $1.50 and no days off, the second on the sheet with the vendor's
\* name in its description: it is returned first, 5 points ahead
C21_Witness ==
    /\ out.op = "match"
    /\ out.amount = 1000 /\ out.date = Day(20) /\ out.vendor = ACME_CO
    /\ Len(txns) = 2
    /\ txns[1] = [Hubdoc |-> "N", total |-> 850, Date |-> Day(20), Vendor |-> MAZED_CO]
    /\ txns[2] = [Hubdoc |-> "N", total |-> 1150, Date |-> Day(20), Vendor |-> ACME_TOOLS_INC]
    /\ out.res = << <<2, 1000>>, <<1, 1500>> >>

\* the score find_matches gives row i in the call of out
ScoreOf(i) == MatchScore(txns[i], out.amount, ParseDate(out.date), out.vendor)

\* C22: find_matches returns at most 5 rows, in ascending order of score,
\* rows of one score in their order on the sheet, and these are the best:
\* every row that passed the filter and is not returned scores no lower than
\* any row returned.
C22_BestFiveSorted ==
    (out.op = "match") =>
        LET cands == Candidates(txns, out.amount, out.date)
        IN  /\ Len(out.res) <= 5
            /\ Len(out.res) = (IF Cardinality(cands) < 5 THEN Cardinality(cands) ELSE 5)
            /\ Returned \subseteq cands
            /\ \A k \in 1..Len(out.res) : out.res[k][2] = ScoreOf(out.res[k][1])
            /\ \A k, l \in 1..Len(out.res) :
                  (k < l) => /\ out.res[k][2] <= out.res[l][2]
                             /\ (out.res[k][2] = out.res[l][2])
                                   => (out.res[k][1] < out.res[l][1])
            /\ \A i \in cands \ Returned : \A k \in 1..Len(out.res) :
                  ScoreOf(i) >= out.res[k][2]

\* of six qualifying rows the five best are returned: the two with the
\* vendor's name first, the last row of the sheet among them, then three of
\* the four others, which score alike, in sheet order
C22_Witness ==
    /\ out.op = "match"
    /\ out.vendor = ACME_CO
    /\ Len(txns) = 6
    /\ Cardinality(Candidates(txns, out.amount, out.date)) = 6
    /\ out.res = << <<3, 1000>>, <<6, 1000>>, <<1, 1500>>, <<2, 1500>>, <<4, 1500>> >>
    /\ ScoreOf(5) = 1500

\* C23: find_matches returns the empty list when the amount is not positive
\* or the date is empty or does not parse; a row whose own date does not
\* parse is left out and the other rows are evaluated all the same: on a
\* sheet of no more than five rows every row that passes the tests of the
\* loop is returned, whatever rows stand before it.
C23_BadDatesAndAmounts ==
    (out.op = "match") =>
        /\ (out.amount <= 0 \/ out.date = <<>> \/ ParseDate(out.date) = -1)
              => (out.res = <<>>)
        /\ \A i \in 1..Len(txns) :
              (ParseDate(txns[i].Date) = -1) => (i \notin Returned)
        /\ (out.amount > 0 /\ ParseDate(out.date) # -1 /\ Len(txns) <= 5)
              => \A i \in 1..Len(txns) :
                    IsCandidate(txns[i], out.amount, ParseDate(out.date))
                       => (i \in Returned)

\* the first row of the sheet has a date that does not parse, the second is
\* returned
C23_Witness ==
    /\ out.op = "match"
    /\ Len(txns) = 2
    /\ txns[1].Date = <<"bad">>
    /\ ~Over150(txns[1].total, out.amount)
    /\ ~HubdocIsY(txns[1].Hubdoc)
    /\ Len(out.res) = 1
    /\ out.res[1][1] = 2

\* C24: find_matches is a pure query: a script run that only computes
\* matches leaves the list it was given as it was loaded (the score goes
\* into a copy), writes no worksheet and flags no transaction; a Hubdoc flag
\* changes only in a save or a confirm, and then only in the row chosen.
C24_FindMatchesIsPure ==
    [][ /\ (out'.op = "match")
           => /\ txns' = cache'.txns[1]
              /\ t_ws' = t_ws
              /\ r_ws' = r_ws
        /\ (t_ws' # t_ws)
           => /\ out'.op \in {"save", "confirm", "other_confirm"}
              /\ t_ws' = MarkTxnMatched(t_ws, out'.sel) ]_vars

\* a script run found candidates among loaded rows
C24_Witness ==
    /\ out.op = "match"
    /\ Len(out.res) = 1
    /\ txns = t_ws

\* C25: when the store is unavailable while load_transactions reads it, the
\* script run gets the empty list and matching yields no candidates.
C25_LoadFailureGivesNoCandidates ==
    (out.op = "match" /\ out.fetch = "failed") =>
        (txns = <<>> /\ out.res = <<>>)

\* the read failed for a receipt that has candidates on the sheet
C25_Witness ==
    /\ out.op = "match"
    /\ out.fetch = "failed"
    /\ UploadMatches(t_ws, <<out.amount, out.date, out.vendor>>) # <<>>

\* the receipts linked to a row of the Business Transactions worksheet
LinkedTo(txn_row) == {r \in 1..Len(r_ws) : r_ws[r].txn = txn_row}

\* C30: each row of the Business Transactions worksheet is linked to at
\* most one receipt, whichever browser session confirms.
C30_OneReceiptPerTransaction ==
    \A txn_row \in 1..Len(t_ws) : Cardinality(LinkedTo(txn_row)) <= 1

\* the rows of the Users sheet that register gave the admin role
Admins == {i \in 1..Len(users) : users[i].Role = ROLE_ADMIN}

\* C26: at most one user is ever given the admin role by registration, also
\* when registrations of several sessions interleave on an empty sheet and
\* when a read of the sheet fails.
C26_AtMostOneAdmin == Cardinality(Admins) <= 1

\* C27: after a logout, the require_auth run that follows does not
\* re-establish the session: the session stays signed out until a new
\* sign-in, also when the cookie could not be deleted.
C27_LogoutIsFinal ==
    [][ (out.op = "logout") => ~Active(ss') ]_vars

\* the expiry a cookie token carries
TokenExp(tok) == JsonLoads(tok[2][1]).exp

\* C28: the cookie token is written at sign-in with the expiry sign-in + 6 h
\* and no later run extends it: the cookie changes only at a sign-in and at
\* a logout that deletes it; a new script session is restored from the
\* cookie exactly while the clock has not passed that expiry.
C28_TokenExpiryIsFixed ==
    [][ /\ (cookie' # cookie) =>
              \/ /\ out'.op = "signin"
                 /\ out'.res = "SignedIn"
                 /\ cookie' # NoCookie
                 /\ TokenExp(cookie') = now + SESSION_HOURS
              \/ /\ out'.op = "logout"
                 /\ cookie' = NoCookie
        /\ (out'.op = "reload") =>
              (Active(ss') <=> /\ out'.ck
                               /\ cookie # NoCookie
                               /\ now <= TokenExp(cookie)) ]_vars

\* a new script session is restored in the token's last hour, after runs
\* that touched the session
C28_Witness ==
    /\ out.op = "reload"
    /\ Active(ss)
    /\ cookie # NoCookie
    /\ now = TokenExp(cookie)
    /\ now = SESSION_HOURS + 1

\* C29: the health flag is held only by an authenticated session of role
\* personal or admin; a run keeps it only in a session that held it, has not
\* expired and is not logged out or begun anew in that run, and sets it only
\* on the Unlock button with the right passphrase: it never carries over to
\* a later sign-in or cookie restore.
C29_HealthFlagDoesNotCarryOver ==
    [][ /\ HealthFlag(ss') =>
              /\ Active(ss')
              /\ ss'[SK_ROLE] \in {ROLE_PERSONAL, ROLE_ADMIN}
              /\ \/ out'.op = "unlock" /\ out'.res = "unlocked"
                 \/ HealthFlag(ss) /\ ss' = ss
                 \/ /\ HealthFlag(ss)
                    /\ ExpireStep(ss, now) = ss
                    /\ out'.op \in {"load", "unlock", "signin"}
        /\ (out'.op = "logout" /\ out'.res = "loggedout") => ~HealthFlag(ss') ]_vars

\* a personal-role session that unlocked the health section an hour or more
\* ago is shown a health page
C29_Witness ==
    /\ out.op = "load"
    /\ out.res = "page"
    /\ level = "personal"
    /\ HealthFlag(ss)
    /\ ss[SK_ROLE] = ROLE_PERSONAL
    /\ now > 0
====
